---- MODULE Spec2Model ----
(***************************************************************************)
(* Model of app.py: the plant-monitor Flask server.                        *)
(*                                                                         *)
(* Module import runs the sensor initialisation (lines 146-154); after it  *)
(* app.run() serves GET /data, POST /calibrate and GET / on concurrent     *)
(* request threads (Flask's development server is threaded).  A handler is *)
(* split into steps at its accesses to the shared dictionary `state`, so   *)
(* that every interleaving of those accesses is explored.                  *)
(*                                                                         *)
(* Python values are records [f, v]: f is the type tag and v the payload.  *)
(* Finite floats and integers carry their value in tenths (2.5 is 25).     *)
(***************************************************************************)
EXTENDS Integers, FiniteSets

\* ------------------------------------------------------------------ bounds
NumThreads == 2
MaxRequests == 3

Threads == 1..NumThreads

\* ----------------------------------------------------------- Python values
PyNone  == [f |-> "none",   v |-> 0]
PyTrue  == [f |-> "bool",   v |-> 1]
PyFalse == [f |-> "bool",   v |-> 0]
Fin(x)  == [f |-> "float",  v |-> x]
PyInt(x) == [f |-> "int",   v |-> x]
\* a JSON integer literal beyond the largest finite double, e.g. 1 followed by 400 zeros
BigInt  == [f |-> "bigint", v |-> 1]
NaN     == [f |-> "nan",    v |-> 0]
PosInf  == [f |-> "inf",    v |-> 1]
NegInf  == [f |-> "inf",    v |-> -1]
\* a string that spells the decimal number x, and one that spells no number
NumStr(x) == [f |-> "numstr", v |-> x]
TextStr == [f |-> "str",    v |-> 0]
PyList  == [f |-> "list",   v |-> 0]

PyBool(b) == IF b THEN PyTrue ELSE PyFalse

\* float comparison: every comparison with NaN is false
FLt(a, b) ==
    /\ a.f # "nan"
    /\ b.f # "nan"
    /\ IF a.f = "inf" THEN a.v < 0 /\ ~(b.f = "inf" /\ b.v < 0)
       ELSE IF b.f = "inf" THEN b.v > 0
       ELSE a.v < b.v

\* min(a, b) keeps its first argument unless the second is smaller
PyMin(a, b) == IF FLt(b, a) THEN b ELSE a

\* max(a, b) keeps its first argument unless the second is larger
PyMax(a, b) == IF FLt(a, b) THEN b ELSE a

\* float addition
FAdd(a, b) ==
    IF a.f = "nan" \/ b.f = "nan" THEN NaN
    ELSE IF a.f = "inf" /\ b.f = "inf" THEN (IF a.v = b.v THEN a ELSE NaN)
    ELSE IF a.f = "inf" THEN a
    ELSE IF b.f = "inf" THEN b
    ELSE Fin(a.v + b.v)

\* float(x): [raised, val]
Raised == [raised |-> TRUE, val |-> PyNone]
Value(x) == [raised |-> FALSE, val |-> x]

ToFloat(x) ==
    CASE x.f = "float"  -> Value(x)
      [] x.f = "nan"    -> Value(x)
      [] x.f = "inf"    -> Value(x)
      [] x.f = "int"    -> Value(Fin(x.v))
      [] x.f = "bool"   -> Value(Fin(10 * x.v))
      [] x.f = "numstr" -> Value(Fin(x.v))
      [] x.f = "bigint" -> Raised
      [] x.f = "str"    -> Raised
      [] x.f = "list"   -> Raised
      [] x.f = "none"   -> Raised

\* ------------------------------------------------------- program constants
\* -10.0, 10.0 and 20.0, in tenths
MinOffset == -100
MaxOffset == 100
FallbackTemp == 200

\* max(-10.0, min(10.0, x)) with the argument order of line 182
ClampNaNLeak(x) == PyMax(PyMin(x, Fin(MaxOffset)), Fin(MinOffset))
Clamp(x) == PyMax(Fin(MinOffset), PyMin(Fin(MaxOffset), x))

\* --------------------------------------------------------------- inputs
\* raw sensor values a successful read can return
RawTemps == {Fin(223)}

\* the values a request body can carry under the key "offset"
Offsets ==
    { PyInt(150), PyInt(-250), Fin(25), BigInt, NaN,
      NumStr(25), TextStr, PyTrue, PyNone }

\* request bodies: a JSON object with or without "offset", or JSON that is no object
NoBody == [shape |-> "none", has |-> FALSE, offset |-> PyNone]
Bodies ==
    { [shape |-> "object", has |-> TRUE, offset |-> o] : o \in Offsets }
    \cup { [shape |-> "object", has |-> FALSE, offset |-> PyNone],
           [shape |-> "other",  has |-> FALSE, offset |-> PyNone] }

NoRequest == [route |-> "none", body |-> NoBody]
Unset == [f |-> "unset", v |-> 0]
NotRead == [raised |-> FALSE, val |-> Unset]
NoSample == [temp |-> NotRead, moist |-> NotRead]
NoResp == [kind |-> "none"]

\* ---------------------------------------------------------------- state
VARIABLES
    started,         \* requests accepted so far
    boot,            \* position of the module-level code: "l148", "l149", "serving"
    temp_sensor,     \* "unset", "device" or "None"
    soil_sensor,     \* "unset", "device" or "None"
    state,           \* the shared dictionary, [calibration_offset |-> float]
    pc,              \* per thread: "idle", the line about to run, or "done"
    request,         \* per thread: the request being served
    offset,          \* per thread: local `offset` of set_calibration
    calibrated_temp, \* per thread: local of get_sensor_data
    is_wet,          \* per thread: local of get_sensor_data
    resp,            \* per thread: the response returned
    sample,          \* per thread: what the two drivers did during this request
    dirty            \* per thread: another request stored an offset (line 182) since
                     \* this one read the offset at line 162 or stored its own

vars == << started, boot, temp_sensor, soil_sensor, state, pc, request, offset,
           calibrated_temp, is_wet, resp, sample, dirty >>

sensors == << boot, temp_sensor, soil_sensor >>
dataLocals == << calibrated_temp, is_wet, sample, dirty >>

\* ------------------------------------------------ sensor initialisation
\* the except branch, lines 151-154
InitFailedKeepsTemp == [temp_sensor |-> temp_sensor, soil_sensor |-> "None"]
InitFailed == [temp_sensor |-> "None", soil_sensor |-> "None"]

\* line 148, temp_sensor = W1ThermSensor()
InitTemp ==
    /\ boot = "l148"
    /\ \E ok \in BOOLEAN :
         IF ok
         THEN /\ temp_sensor' = "device"
              /\ soil_sensor' = soil_sensor
              /\ boot' = "l149"
         ELSE /\ temp_sensor' = InitFailed.temp_sensor
              /\ soil_sensor' = InitFailed.soil_sensor
              /\ boot' = "serving"
    /\ UNCHANGED << started, state, pc, request, offset, calibrated_temp, is_wet,
                    resp, sample, dirty >>

\* line 149, soil_sensor = DigitalInputDevice(SOIL_SENSOR_PIN)
InitSoil ==
    /\ boot = "l149"
    /\ \E ok \in BOOLEAN :
         IF ok
         THEN /\ soil_sensor' = "device"
              /\ temp_sensor' = temp_sensor
         ELSE /\ temp_sensor' = InitFailed.temp_sensor
              /\ soil_sensor' = InitFailed.soil_sensor
    /\ boot' = "serving"
    /\ UNCHANGED << started, state, pc, request, offset, calibrated_temp, is_wet,
                    resp, sample, dirty >>

\* truth value of a sensor handle
Truthy(x) == x = "device"

\* line 159, if temp_sensor and soil_sensor
HardwareMode == Truthy(temp_sensor) /\ Truthy(soil_sensor)

\* ----------------------------------------------------------- GET /data
\* lines 160-163: the temperature read and the calibration
CalibratedTempFallsBack(outcome, off) ==
    IF outcome.raised THEN Fin(FallbackTemp) ELSE FAdd(outcome.val, off)
CalibratedTemp(outcome, off) ==
    IF outcome.raised THEN PyNone ELSE FAdd(outcome.val, off)

\* lines 164-166: the moisture read, active means dry
IsWet(outcome) ==
    IF outcome.raised THEN PyNone ELSE PyBool(~(outcome.val = PyTrue))

\* line 168: what fallback mode reports
FallbackReadingCalibrated ==
    [ calibrated_temp |-> FAdd(Fin(FallbackTemp), state.calibration_offset),
      is_wet |-> PyFalse ]
FallbackReading == [calibrated_temp |-> Fin(FallbackTemp), is_wet |-> PyFalse]

\* lines 169-173
DataResponse(ct, iw, st) ==
    [ kind |-> "data", code |-> 200, temperature |-> ct, is_wet |-> iw,
      calibration_offset |-> st.calibration_offset ]

\* a request for /data arrives at an idle thread: line 159, and line 168 in
\* fallback mode
DataBegin(t) ==
    /\ boot = "serving"
    /\ pc[t] = "idle"
    /\ started < MaxRequests
    /\ started' = started + 1
    /\ request' = [request EXCEPT ![t] = [route |-> "data", body |-> NoBody]]
    /\ IF HardwareMode
       THEN /\ pc' = [pc EXCEPT ![t] = "l161"]
            /\ UNCHANGED << calibrated_temp, is_wet >>
       ELSE /\ calibrated_temp' =
                  [calibrated_temp EXCEPT ![t] = FallbackReading.calibrated_temp]
            /\ is_wet' = [is_wet EXCEPT ![t] = FallbackReading.is_wet]
            /\ pc' = [pc EXCEPT ![t] = "l169"]
    /\ UNCHANGED << sensors, state, offset, resp, sample, dirty >>

\* lines 160-163
ReadTemperature(t) ==
    /\ pc[t] = "l161"
    /\ \E outcome \in {Raised} \cup {Value(r) : r \in RawTemps} :
         /\ calibrated_temp' = [calibrated_temp EXCEPT
                 ![t] = CalibratedTemp(outcome, state.calibration_offset)]
         /\ sample' = [sample EXCEPT ![t].temp = outcome]
    /\ dirty' = [dirty EXCEPT ![t] = FALSE]
    /\ pc' = [pc EXCEPT ![t] = "l165"]
    /\ UNCHANGED << started, sensors, state, request, offset, is_wet, resp >>

\* lines 164-166
ReadMoisture(t) ==
    /\ pc[t] = "l165"
    /\ \E outcome \in {Raised, Value(PyTrue), Value(PyFalse)} :
         /\ is_wet' = [is_wet EXCEPT ![t] = IsWet(outcome)]
         /\ sample' = [sample EXCEPT ![t].moist = outcome]
    /\ pc' = [pc EXCEPT ![t] = "l169"]
    /\ UNCHANGED << started, sensors, state, request, offset, calibrated_temp, resp,
                    dirty >>

\* lines 169-173
DataRespond(t) ==
    /\ pc[t] = "l169"
    /\ resp' = [resp EXCEPT ![t] = DataResponse(calibrated_temp[t], is_wet[t], state)]
    /\ pc' = [pc EXCEPT ![t] = "done"]
    /\ UNCHANGED << started, sensors, state, request, offset, calibrated_temp, is_wet,
                    sample, dirty >>

\* ------------------------------------------------------ POST /calibrate
\* line 178, data.get('offset'): a body that is no JSON object has no .get
GetOffsetDefaultsToZero(body) ==
    CASE body.shape = "object" /\ body.has  -> Value(body.offset)
      [] body.shape = "object" /\ ~body.has -> Value(Fin(0))
      [] OTHER                              -> Raised
GetOffset(body) ==
    CASE body.shape = "object" /\ body.has  -> Value(body.offset)
      [] body.shape = "object" /\ ~body.has -> Value(PyNone)
      [] OTHER                              -> Raised

Success == [kind |-> "calibrate", code |-> 200, status |-> "success"]
Error400 == [kind |-> "calibrate", code |-> 400, status |-> "error"]
\* an exception that leaves the handler is answered by Flask with a 500 page
Error500 == [kind |-> "calibrate", code |-> 500, status |-> "exception"]

\* lines 182-183: the conversion, the clamp, the store and the answer
SetCalibrationResetsOnError(st, off) ==
    IF ToFloat(off).raised
    THEN [state |-> [st EXCEPT !.calibration_offset = Fin(0)], resp |-> Error500]
    ELSE [ state |-> [st EXCEPT !.calibration_offset = Clamp(ToFloat(off).val)],
           resp  |-> Success ]
SetCalibration(st, off) ==
    IF ToFloat(off).raised
    THEN [state |-> st, resp |-> Error500]
    ELSE [ state |-> [st EXCEPT !.calibration_offset = Clamp(ToFloat(off).val)],
           resp  |-> Success ]

\* a request for /calibrate arrives at an idle thread: lines 177-179, and
\* line 184 when offset is None
CalBegin(t) ==
    /\ boot = "serving"
    /\ pc[t] = "idle"
    /\ started < MaxRequests
    /\ started' = started + 1
    /\ \E b \in Bodies :
         /\ request' = [request EXCEPT ![t] = [route |-> "calibrate", body |-> b]]
         /\ LET got == GetOffset(b) IN
              IF got.raised
              THEN /\ resp' = [resp EXCEPT ![t] = Error500]
                   /\ pc' = [pc EXCEPT ![t] = "done"]
                   /\ UNCHANGED offset
              ELSE IF got.val = PyNone
              THEN /\ offset' = [offset EXCEPT ![t] = got.val]
                   /\ resp' = [resp EXCEPT ![t] = Error400]
                   /\ pc' = [pc EXCEPT ![t] = "done"]
              ELSE /\ offset' = [offset EXCEPT ![t] = got.val]
                   /\ pc' = [pc EXCEPT ![t] = "l182"]
                   /\ UNCHANGED resp
    /\ UNCHANGED << sensors, state, dataLocals >>

\* lines 182-183
CalStore(t) ==
    /\ pc[t] = "l182"
    /\ LET r == SetCalibration(state, offset[t]) IN
         /\ state' = r.state
         /\ resp' = [resp EXCEPT ![t] = r.resp]
         /\ dirty' = [u \in Threads |->
                        IF u = t THEN FALSE
                        ELSE IF r.resp = Success
                                /\ \/ pc[u] \in {"l165", "l169"}
                                   \/ pc[u] = "done" /\ request[u].route = "calibrate"
                        THEN TRUE ELSE dirty[u]]
    /\ pc' = [pc EXCEPT ![t] = "done"]
    /\ UNCHANGED << started, sensors, request, offset, calibrated_temp, is_wet, sample >>

\* ---------------------------------------------------------------- GET /
\* lines 186-188
Index(t) ==
    /\ boot = "serving"
    /\ pc[t] = "idle"
    /\ started < MaxRequests
    /\ started' = started + 1
    /\ request' = [request EXCEPT ![t] = [route |-> "index", body |-> NoBody]]
    /\ resp' = [resp EXCEPT ![t] = [kind |-> "index", code |-> 200]]
    /\ pc' = [pc EXCEPT ![t] = "done"]
    /\ UNCHANGED << sensors, state, offset, dataLocals >>

\* the response is sent and the thread takes the next request
Finish(t) ==
    /\ pc[t] = "done"
    /\ pc' = [pc EXCEPT ![t] = "idle"]
    /\ request' = [request EXCEPT ![t] = NoRequest]
    /\ offset' = [offset EXCEPT ![t] = Unset]
    /\ calibrated_temp' = [calibrated_temp EXCEPT ![t] = Unset]
    /\ is_wet' = [is_wet EXCEPT ![t] = Unset]
    /\ resp' = [resp EXCEPT ![t] = NoResp]
    /\ sample' = [sample EXCEPT ![t] = NoSample]
    /\ dirty' = [dirty EXCEPT ![t] = FALSE]
    /\ UNCHANGED << started, sensors, state >>

\* ----------------------------------------------------------- the system
Init ==
    /\ started = 0
    /\ boot = "l148"
    /\ temp_sensor = "unset"
    /\ soil_sensor = "unset"
    /\ state = [calibration_offset |-> Fin(0)]
    /\ pc = [t \in Threads |-> "idle"]
    /\ request = [t \in Threads |-> NoRequest]
    /\ offset = [t \in Threads |-> Unset]
    /\ calibrated_temp = [t \in Threads |-> Unset]
    /\ is_wet = [t \in Threads |-> Unset]
    /\ resp = [t \in Threads |-> NoResp]
    /\ sample = [t \in Threads |-> NoSample]
    /\ dirty = [t \in Threads |-> FALSE]

Next ==
    \/ InitTemp
    \/ InitSoil
    \/ \E t \in Threads : DataBegin(t)
    \/ \E t \in Threads : ReadTemperature(t)
    \/ \E t \in Threads : ReadMoisture(t)
    \/ \E t \in Threads : DataRespond(t)
    \/ \E t \in Threads : CalBegin(t)
    \/ \E t \in Threads : CalStore(t)
    \/ \E t \in Threads : Index(t)
    \/ \E t \in Threads : Finish(t)

Spec == Init /\ [][Next]_vars

\* ------------------------------------------------------------ vocabulary
InRange(x) == x.f = "float" /\ MinOffset <= x.v /\ x.v <= MaxOffset

\* thread t has answered a request of the given route
Answered(t, route) == pc[t] = "done" /\ request[t].route = route

\* thread t has answered a POST /calibrate whose body is an object carrying offset
AnsweredOffset(t) ==
    /\ Answered(t, "calibrate")
    /\ request[t].body.shape = "object"
    /\ request[t].body.has

\* a JSON number with a real value
IsNumeric(o) == o.f \in {"int", "float", "bigint"}

\* max(-10.0, min(10.0, o)) over the reals, for a numeric o
ClampSpec(o) ==
    IF o.f = "bigint" THEN Fin(IF o.v > 0 THEN MaxOffset ELSE MinOffset)
    ELSE IF o.v > MaxOffset THEN Fin(MaxOffset)
    ELSE IF o.v < MinOffset THEN Fin(MinOffset)
    ELSE Fin(o.v)

\* thread t has answered a GET /data served from the hardware
AnsweredHardware(t) == Answered(t, "data") /\ HardwareMode

\* this step is thread t executing lines 169-173
Responds(t) == pc[t] = "l169" /\ pc'[t] = "done"

\* --------------------------------------------------------------- claims

\* C1: in every reachable state the stored calibration offset is a float in
\* [-10.0, 10.0], and so is the calibration_offset of every GET /data response.
C1_OffsetInRange ==
    /\ InRange(state.calibration_offset)
    /\ \A t \in Threads :
         resp[t].kind = "data" => InRange(resp[t].calibration_offset)

\* a GET /data reports 10.0 while a request that asked for 15 has been answered
C1_Witness ==
    \E t, u \in Threads :
        /\ Answered(t, "data")
        /\ resp[t].calibration_offset = Fin(MaxOffset)
        /\ AnsweredOffset(u)
        /\ request[u].body.offset = PyInt(150)
        /\ resp[u] = Success

\* C2: every POST /calibrate carrying a numeric offset o answers success, and
\* until another request stores an offset the stored offset is
\* max(-10.0, min(10.0, o)).
C2_NumericAlwaysClamped ==
    \A t \in Threads :
        AnsweredOffset(t) /\ IsNumeric(request[t].body.offset) =>
            /\ resp[t] = Success
            /\ ~dirty[t] => state.calibration_offset = ClampSpec(request[t].body.offset)

\* C3: a POST /calibrate whose offset is a non-numeric string answers HTTP 400
\* with status "error" and nothing else.
C3_NonNumericIs400 ==
    \A t \in Threads :
        AnsweredOffset(t) /\ request[t].body.offset.f = "str" => resp[t] = Error400

\* C4: a POST /calibrate whose body has no offset, or offset null, is answered
\* with HTTP 400 and status "error" in a step that leaves the stored offset as
\* it was.
C4_MissingOffsetIs400 ==
    [][ \A t \in Threads :
          ( /\ pc[t] = "idle"
            /\ request'[t].route = "calibrate"
            /\ request'[t].body.shape = "object"
            /\ (request'[t].body.has => request'[t].body.offset = PyNone) )
          => /\ pc'[t] = "done"
             /\ resp'[t] = Error400
             /\ state' = state ]_vars

\* a body {} was answered 400 while the stored offset was not the default
C4_Witness ==
    \E t \in Threads :
        /\ Answered(t, "calibrate")
        /\ request[t].body.shape = "object"
        /\ ~request[t].body.has
        /\ resp[t] = Error400
        /\ state.calibration_offset # Fin(0)

\* C5: in hardware mode every GET /data is answered 200; temperature is null
\* exactly when the temperature read failed and is_wet is null exactly when the
\* moisture read failed; a successful moisture read gives is_wet = NOT active; a
\* successful temperature read gives raw + the offset (the offset the response
\* reports, when no request stored one in between); and calibration_offset is
\* the offset stored when the response is built.
C5_FailedReadsAreNull ==
    /\ [](\A t \in Threads :
            AnsweredHardware(t) =>
              /\ resp[t].kind = "data"
              /\ resp[t].code = 200
              /\ sample[t].temp.raised <=> resp[t].temperature = PyNone
              /\ sample[t].moist.raised <=> resp[t].is_wet = PyNone
              /\ ~sample[t].moist.raised =>
                    resp[t].is_wet = PyBool(sample[t].moist.val = PyFalse)
              /\ ~sample[t].temp.raised =>
                    /\ resp[t].temperature.f = "float"
                    /\ ~dirty[t] => resp[t].temperature =
                          FAdd(sample[t].temp.val, resp[t].calibration_offset))
    /\ [][ \A t \in Threads :
             Responds(t) /\ HardwareMode =>
                resp'[t].calibration_offset = state.calibration_offset ]_vars

\* the temperature read failed, the moisture read did not
C5_Witness ==
    \E t \in Threads :
        /\ AnsweredHardware(t)
        /\ sample[t].temp.raised
        /\ sample[t].moist = Value(PyTrue)
        /\ resp[t].temperature = PyNone
        /\ resp[t].is_wet = PyFalse
        /\ resp[t].calibration_offset # Fin(0)

\* C6: in hardware mode a GET /data whose two reads both succeed reports a
\* temperature equal to the raw temperature plus the calibration_offset of the
\* same response, and is_wet = NOT active.
C6_SingleCalibrationValue ==
    \A t \in Threads :
        ( /\ AnsweredHardware(t)
          /\ ~sample[t].temp.raised
          /\ ~sample[t].moist.raised )
        => /\ resp[t].temperature =
                 FAdd(sample[t].temp.val, resp[t].calibration_offset)
           /\ resp[t].is_wet = PyBool(sample[t].moist.val = PyFalse)

\* C7: once every thread has answered a POST /calibrate with a numeric offset,
\* the stored offset is the clamped offset of one of them; and no GET /data
\* response reports an offset outside [-10.0, 10.0].
C7_ConcurrentSetsLeaveOneInput ==
    /\ (\A t \in Threads : AnsweredOffset(t) /\ IsNumeric(request[t].body.offset))
         => \E t \in Threads :
               state.calibration_offset = ClampSpec(request[t].body.offset)
    /\ \A t \in Threads :
         resp[t].kind = "data" => InRange(resp[t].calibration_offset)

\* C8: in fallback mode every GET /data reports temperature 20.0 and is_wet
\* false whatever the stored offset, and its calibration_offset is the offset
\* stored when the response is built.
C8_FallbackIgnoresOffset ==
    /\ [](\A t \in Threads :
            Answered(t, "data") /\ ~HardwareMode =>
              /\ resp[t].temperature = Fin(FallbackTemp)
              /\ resp[t].is_wet = PyFalse)
    /\ [][ \A t \in Threads :
             Responds(t) /\ ~HardwareMode =>
                resp'[t].calibration_offset = state.calibration_offset ]_vars

\* a fallback response that reports a non-zero offset next to 20.0
C8_Witness ==
    \E t \in Threads :
        /\ Answered(t, "data")
        /\ ~HardwareMode
        /\ resp[t].calibration_offset = Fin(MaxOffset)
        /\ resp[t].temperature = Fin(FallbackTemp)

\* C9: once the server serves, both sensor handles are devices or both are
\* None, no step changes them, and a hardware read that fails gives null.
C9_ModeFixedAtStartup ==
    /\ [](boot = "serving" =>
            /\ temp_sensor \in {"device", "None"}
            /\ soil_sensor \in {"device", "None"}
            /\ temp_sensor = "None" <=> soil_sensor = "None"
            /\ \A t \in Threads :
                 Answered(t, "data") =>
                   /\ sample[t].temp.raised => resp[t].temperature = PyNone
                   /\ sample[t].moist.raised => resp[t].is_wet = PyNone)
    /\ [][ boot = "serving" =>
             /\ boot' = boot
             /\ temp_sensor' = temp_sensor
             /\ soil_sensor' = soil_sensor ]_vars

\* in hardware mode both reads of one request failed, after an earlier request
C9_Witness ==
    \E t \in Threads :
        /\ AnsweredHardware(t)
        /\ started > 1
        /\ sample[t].temp.raised
        /\ sample[t].moist.raised
        /\ resp[t].temperature = PyNone
        /\ resp[t].is_wet = PyNone

\* C10: the stored offset starts at 0.0 and changes only in a step in which a
\* POST /calibrate executes line 182 and answers success.
C10_OnlySuccessfulCalibrateWrites ==
    /\ state.calibration_offset = Fin(0)
    /\ [][ state' # state =>
             \E t \in Threads :
                 /\ pc[t] = "l182"
                 /\ pc'[t] = "done"
                 /\ resp'[t] = Success ]_vars

\* a POST /calibrate ended in an exception and a non-default offset survived it
C10_Witness ==
    \E t \in Threads :
        /\ AnsweredOffset(t)
        /\ resp[t] = Error500
        /\ state.calibration_offset = Fin(25)

====
